---------------------------- MODULE Spec2Model ----------------------------
(***************************************************************************)
(* Model of botango's update-delivery transport layer                      *)
(* (src/src/botango/core/connection.py):                                   *)
(*   - LongPolling._run, the polling transport;                            *)
(*   - WebhookBot, the webhook server: its startup and cleanup hooks and   *)
(*     _handle, its callback route;                                        *)
(*   - NgrokManager, the supervisor of the external tunnel process;        *)
(*   - NgrokWebhook, the webhook server fronted by the tunnel.             *)
(*                                                                         *)
(* Python strings are sequences of one-character strings, so that          *)
(* str.rstrip, str.startswith, concatenation and the ASCII test of         *)
(* hmac.compare_digest are computed, not assumed.  Time is counted in      *)
(* ticks of half a second, the sleep of the discovery poll loop.           *)
(***************************************************************************)
EXTENDS Integers, Sequences, FiniteSets, TLC

(***************************************************************************)
(* Bounds of the model.                                                    *)
(***************************************************************************)
NumRequests == 2
\* processes one NgrokManager may spawn in a run
MaxProcs == 2
\* calls a caller makes on one NgrokManager in a run
MaxCalls == 4
\* calls of wait_for_https_tunnel a caller makes in a run
MaxWaitCalls == 2
\* longest timeout (in ticks) a caller gives wait_for_https_tunnel
MaxTimeoutTicks == 3
\* longest list of tunnel descriptors the discovery API returns
MaxTunnels == 2
\* fetches (get_updates calls that return) of one polling run
MaxFetches == 2
\* most updates one fetch returns
MaxBatch == 2

(***************************************************************************)
(* Strings.                                                                *)
(***************************************************************************)
AsciiChars ==
    {"a", "b", "c", "e", "g", "h", "k", "l", "m", "o", "p", "r", "s", "t", "w", "x", "y",
     "1", "2", "3", "4", ":", "/"}

IsAscii(s) == \A i \in 1..Len(s) : s[i] \in AsciiChars

\* str.startswith(prefix)
StartsWith(s, prefix) ==
    /\ Len(prefix) <= Len(s)
    /\ SubSeq(s, 1, Len(prefix)) = prefix

\* str.rstrip(ch): drops every trailing occurrence of ch
RECURSIVE RStrip(_, _)
RStrip(s, ch) ==
    IF Len(s) > 0 /\ s[Len(s)] = ch THEN RStrip(SubSeq(s, 1, Len(s) - 1), ch) ELSE s

\* Optional[str]: None, or a string
None == [some |-> FALSE, val |-> <<>>]
Some(s) == [some |-> TRUE, val |-> s]
\* truth value of an Optional[str] in a Python condition: None and "" are falsy
Truthy(o) == o.some /\ o.val # <<>>

(***************************************************************************)
(* Values of the WebhookBot fields.                                        *)
(***************************************************************************)
\* the default of webhook_path: "/telegram/webhook"
Path_default ==
    <<"/", "t", "e", "l", "e", "g", "r", "a", "m", "/", "w", "e", "b", "h", "o", "o", "k">>
\* a webhook_path given without its leading slash: "hook"
Path_hook == <<"h", "o", "o", "k">>
\* webhook_path if webhook_path.startswith("/") else f"/{webhook_path}"
NormalizePath(path) == IF StartsWith(path, <<"/">>) THEN path ELSE <<"/">> \o path

Https == <<"h", "t", "t", "p", "s", ":", "/", "/">>
\* static base URLs: "https://m" and "https://m/"
Url_https_m == Https \o <<"m">>
Url_https_m_slash == Https \o <<"m", "/">>

\* the allow-list _on_startup falls back to
Default_allowed_updates == <<"message", "callback_query">>

(***************************************************************************)
(* The webhook callback route: WebhookBot._handle.                         *)
(***************************************************************************)
Secret_abc123 == <<"a", "b", "c", "1", "2", "3">>
Secret_abc124 == <<"a", "b", "c", "1", "2", "4">>
Secret_empty == <<>>
Secret_nonascii == <<"a", "b", "é">>

\* the values the constructor may be given as webhook_secret
Secrets == {Secret_abc123, Secret_empty, Secret_nonascii}
\* request.headers.get("X-Telegram-Bot-Api-Secret-Token")
Headers ==
    {None, Some(Secret_abc123), Some(Secret_abc124), Some(Secret_empty),
     Some(Secret_nonascii)}

\* request bodies: undecodable, JSON that is no Update, a well-formed Update
Body_notjson == "{oops"
Body_notupdate == "{\"foo\": 1}"
Body_update == "{\"update_id\": 1}"
Bodies == {Body_notjson, Body_notupdate, Body_update}

\* request.json() returns (True) or raises (False)
json_decodes(body) == body \in {Body_notupdate, Body_update}
\* Update.model_validate(data) returns (True) or raises (False)
model_validates(body) == body = Body_update

\* hmac.compare_digest(a, b) on str raises TypeError unless both are ASCII
compare_digest_raises(a, b) == ~IsAscii(a) \/ ~IsAscii(b)
compare_digest(a, b) == a = b

Resp_empty == ""
Resp_ok_true == "{\"ok\": true}"
Resp_ok_false == "{\"ok\": false, \"error\": \"invalid json\"}"

Log_invalid_json == "Invalid JSON on webhook"
Log_handling_failed == "Update handling failed"

RequestIds == 1..NumRequests

VARIABLES
    \* WebhookBot fields
    webhook_secret,   \* self._webhook_secret
    base_url,         \* self._base_url
    webhook_url,      \* self._webhook_url
    webhook_path,     \* self._webhook_path
    drop_pending,     \* self._drop_pending_updates
    allowed_updates,  \* self._allowed_updates
    http_session,     \* self.app["http_session"]: "none", "open", "closed"
    \* callback requests in flight
    requests,         \* per request: position in _handle, header, body, response
    feed_calls,       \* per request: calls of dispatcher.feed_update
    event_log,        \* per request: messages given to event.exception
    \* NgrokManager and the host it runs on
    proc,             \* self.proc: 0 is None, else the process spawned by Popen
    procs,            \* per process: state, who called start(), signals it was sent
    mgr_calls,        \* the NgrokManager operations invoked so far, in order
    last_result,      \* how the last NgrokManager operation ended: "ok" or the exception
    binary_in_path,   \* shutil.which("ngrok") is not None
    ngrok_cfg,        \* ~/.config/ngrok/ngrok.yml: None, or the token written to it
    shell_log,        \* the shell commands run by install(), in order
    os_release_reads, \* how many times install() has read /etc/os-release
    usr_bin_ngrok,    \* Path("/usr/bin/ngrok").exists()
    now,              \* asyncio.get_event_loop().time(), in ticks
    wait,             \* the running wait_for_https_tunnel call
    \* the transport object and its run
    cls,              \* the class constructed: "WebhookBot" or "NgrokWebhook"
    base_url_arg,     \* the base_url given to the constructor
    allowed_updates_arg, \* the allowed_updates given to the constructor
    ngrok_mgr,        \* self._ngrok_mgr: "none", or "mgr" (the NgrokManager)
    mgr_injected,     \* the caller passed ngrok_manager to the constructor
    ngrok_token,      \* self._ngrok_token
    app_pc,           \* position of the run in startup, serving and cleanup
    registered,       \* the webhook registered with the provider
    app_trace,        \* the startup and cleanup steps performed so far, in order
    app_error,        \* the exception that ended startup or cleanup, "none" if none
    base,             \* the local base of _on_startup: the resolved public base URL
    quick_probe,      \* how the 1 s probe of the resolution ended: "none", "returned", "raised"
    \* the LongPolling transport
    poll,             \* the run of LongPolling._run: position, argument, calls made
    updates,          \* the updates fetched so far, in fetch order, each with its dispatch state
    feed_order        \* the updates in the order their dispatch began

transportVars ==
    <<webhook_secret, base_url, webhook_url, webhook_path, drop_pending, allowed_updates,
      http_session>>
handleVars == <<requests, feed_calls, event_log>>
procVars == <<proc, procs>>
hostVars == <<binary_in_path, ngrok_cfg, shell_log, os_release_reads, usr_bin_ngrok>>
waitVars == <<now, wait>>
mgrVars == <<procVars, mgr_calls, last_result, hostVars, waitVars>>
appVars ==
    <<cls, base_url_arg, allowed_updates_arg,
      ngrok_mgr, mgr_injected, ngrok_token, app_pc, registered,
      app_trace, app_error, base, quick_probe>>
pollVars == <<poll, updates, feed_order>>
vars == <<transportVars, handleVars, mgrVars, appVars, pollVars>>

NoRequest ==
    [pc |-> "none", header |-> None, body |-> Body_notjson, authed |-> FALSE,
     body_read |-> FALSE, feed |-> "none", status |-> 0, resp_body |-> Resp_empty]

Respond(req, status, body) ==
    [req EXCEPT !.pc = "done", !.status = status, !.resp_body = body]

\* a POST arrives on the callback route
Arrive(r) ==
    /\ requests[r].pc = "none"
    /\ \E h \in Headers, b \in Bodies :
          requests' = [requests EXCEPT ![r] = [NoRequest EXCEPT !.pc = "auth", !.header = h, !.body = b]]
    /\ UNCHANGED <<feed_calls, event_log, transportVars, mgrVars, appVars, pollVars>>

\* Variant of Rejects that tests the header for None instead of truthiness:
\* an empty header is compared with the secret like any other.
Rejects_none_only(header_secret) ==
    \/ ~header_secret.some
    \/ ~compare_digest(header_secret.val, webhook_secret)

\* the secret check of _handle
Rejects(header_secret) ==
    \/ ~Truthy(header_secret)
    \/ ~compare_digest(header_secret.val, webhook_secret)

HandleAuth(r) ==
    /\ requests[r].pc = "auth"
    /\ LET header_secret == requests[r].header IN
          requests' = [requests EXCEPT ![r] =
              IF Truthy(header_secret) /\ compare_digest_raises(header_secret.val, webhook_secret)
              THEN Respond(@, 500, Resp_empty)    \* TypeError leaves the handler
              ELSE IF Rejects(header_secret)
              THEN Respond(@, 403, Resp_empty)
              ELSE [@ EXCEPT !.pc = "json", !.authed = TRUE]]
    /\ UNCHANGED <<feed_calls, event_log, transportVars, mgrVars, appVars, pollVars>>

\* data = await request.json()
HandleJson(r) ==
    /\ requests[r].pc = "json"
    /\ IF json_decodes(requests[r].body)
       THEN /\ requests' = [requests EXCEPT ![r] = [@ EXCEPT !.pc = "dispatch", !.body_read = TRUE]]
            /\ UNCHANGED event_log
       ELSE /\ requests' = [requests EXCEPT ![r] =
                    Respond([@ EXCEPT !.body_read = TRUE], 200, Resp_ok_false)]
            /\ event_log' = [event_log EXCEPT ![r] = Append(@, Log_invalid_json)]
    /\ UNCHANGED <<feed_calls, transportVars, mgrVars, appVars, pollVars>>

\* Variant of HandleDispatch with one lock around feed_update: a request is
\* dispatched only when no other request is in the dispatcher.
HandleDispatch_serial(r) ==
    /\ requests[r].pc = "dispatch"
    /\ \A q \in RequestIds \ {r} : requests[q].pc # "feeding"
    /\ IF model_validates(requests[r].body)
       THEN /\ requests' = [requests EXCEPT ![r] = [@ EXCEPT !.pc = "feeding"]]
            /\ feed_calls' = [feed_calls EXCEPT ![r] = @ + 1]
            /\ UNCHANGED event_log
       ELSE /\ requests' = [requests EXCEPT ![r] = Respond(@, 200, Resp_ok_true)]
            /\ event_log' = [event_log EXCEPT ![r] = Append(@, Log_handling_failed)]
            /\ UNCHANGED feed_calls
    /\ UNCHANGED <<transportVars, mgrVars, appVars, pollVars>>

\* update = Update.model_validate(data); the call of dispatcher.feed_update
HandleDispatch(r) ==
    /\ requests[r].pc = "dispatch"
    /\ IF model_validates(requests[r].body)
       THEN /\ requests' = [requests EXCEPT ![r] = [@ EXCEPT !.pc = "feeding"]]
            /\ feed_calls' = [feed_calls EXCEPT ![r] = @ + 1]
            /\ UNCHANGED event_log
       ELSE /\ requests' = [requests EXCEPT ![r] = Respond(@, 200, Resp_ok_true)]
            /\ event_log' = [event_log EXCEPT ![r] = Append(@, Log_handling_failed)]
            /\ UNCHANGED feed_calls
    /\ UNCHANGED <<transportVars, mgrVars, appVars, pollVars>>

\* Variant of HandleFeedDone without the "except Exception" of _handle: an
\* exception of the dispatcher leaves the handler and the server answers 500.
HandleFeedDone_uncaught(r) ==
    /\ requests[r].pc = "feeding"
    /\ \E raised \in BOOLEAN :
          requests' = [requests EXCEPT ![r] =
              IF raised
              THEN Respond([@ EXCEPT !.feed = "raised"], 500, Resp_empty)
              ELSE Respond([@ EXCEPT !.feed = "returned"], 200, Resp_ok_true)]
    /\ UNCHANGED <<feed_calls, event_log, transportVars, mgrVars, appVars, pollVars>>

\* await feed_update(...) returns, or raises an Exception
HandleFeedDone(r) ==
    /\ requests[r].pc = "feeding"
    /\ \E raised \in BOOLEAN :
          /\ requests' = [requests EXCEPT ![r] =
                Respond([@ EXCEPT !.feed = IF raised THEN "raised" ELSE "returned"],
                        200, Resp_ok_true)]
          /\ event_log' = [event_log EXCEPT ![r] =
                IF raised THEN Append(@, Log_handling_failed) ELSE @]
    /\ UNCHANGED <<feed_calls, transportVars, mgrVars, appVars, pollVars>>


(***************************************************************************)
(* NgrokManager.                                                           *)
(***************************************************************************)
\* ticks of half a second
SleepTicks == 1
ProbeTimeoutTicks == 6
QuickTimeoutTicks == 2
LongTimeoutTicks == 60

Pids == 1..MaxProcs
NoProc == [state |-> "unborn", by |-> "none", sigint |-> 0, sigkill |-> 0]
\* an entry of a call history: the operation and its argument (0 if none)
Call(op, arg) == [op |-> op, arg |-> arg]

\* URLs the discovery API may list
Url_http_x == <<"h", "t", "t", "p", ":", "/", "/", "x">>
Url_https_y == Https \o <<"y">>
Url_https_y_slash == Https \o <<"y", "/">>
Url_https_only == Https
Urls == {Url_http_x, Url_https_y, Url_https_y_slash, Url_https_only}

\* a tunnel descriptor: its public_url is a string, is missing, or is null
Descriptors ==
    {[kind |-> "url", public_url |-> u] : u \in Urls}
        \cup {[kind |-> "missing", public_url |-> <<>>], [kind |-> "null", public_url |-> <<>>]}

RECURSIVE SeqsUpTo(_, _)
SeqsUpTo(S, n) ==
    IF n = 0 THEN {<<>>}
    ELSE LET shorter == SeqsUpTo(S, n - 1) IN
         shorter \cup {Append(q, x) : q \in {t \in shorter : Len(t) = n - 1}, x \in S}

\* what one GET of the discovery API yields: an error (connection refused,
\* probe timeout, undecodable body), or the decoded list of tunnels
Responses ==
    {[kind |-> "error", tunnels |-> <<>>]}
        \cup {[kind |-> "json", tunnels |-> ts] : ts \in SeqsUpTo(Descriptors, MaxTunnels)}

\* t.get("public_url", "")
PublicUrl(t) == IF t.kind = "url" THEN t.public_url ELSE <<>>

\* Variant of ScanTunnels that goes on after a match: the URL of the last
\* descriptor that starts with https:// wins.
RECURSIVE ScanTunnels_last(_)
ScanTunnels_last(ts) ==
    IF ts = <<>> THEN None
    ELSE IF Head(ts).kind = "null" THEN None
    ELSE IF ScanTunnels_last(Tail(ts)).some THEN ScanTunnels_last(Tail(ts))
    ELSE IF StartsWith(PublicUrl(Head(ts)), Https) THEN Some(RStrip(PublicUrl(Head(ts)), "/"))
    ELSE None

\* the for loop over data.get("tunnels", []): the stripped URL of the first
\* descriptor that starts with https://; a null public_url raises out of the loop
RECURSIVE ScanTunnels(_)
ScanTunnels(ts) ==
    IF ts = <<>> THEN None
    ELSE IF Head(ts).kind = "null" THEN None
    ELSE IF StartsWith(PublicUrl(Head(ts)), Https) THEN Some(RStrip(PublicUrl(Head(ts)), "/"))
    ELSE ScanTunnels(Tail(ts))

ProbeResult(resp) == IF resp.kind = "error" THEN None ELSE ScanTunnels(resp.tunnels)

OffersHttps(resp) ==
    \E i \in 1..Len(resp.tunnels) : StartsWith(PublicUrl(resp.tunnels[i]), Https)

\* what the loop learns from one answer: the URL it returns, if any, and
\* whether the answer listed an https:// URL at all
ProbeOutcomes == {[pub |-> ProbeResult(resp), offered |-> OffersHttps(resp)] : resp \in Responses}

\* no answer of the discovery API on record
NoAnswer == [kind |-> "none", tunnels |-> <<>>]

WaitIdle ==
    [pc |-> "idle", deadline |-> 0, probed |-> FALSE, offered |-> FALSE,
     timeout |-> 0, result |-> None, error |-> "none", answer |-> NoAnswer]

\* wait_for_https_tunnel(timeout): deadline = time() + timeout.  The loop
\* clock is read from the start of the call on, so it is counted from there.
WaitCall(timeout) ==
    /\ wait.pc \in {"idle", "returned", "raised"}
    /\ now' = 0
    /\ wait' = [WaitIdle EXCEPT !.pc = "probe", !.deadline = now' + timeout, !.timeout = timeout]
    /\ mgr_calls' = Append(mgr_calls, Call("wait_for_https_tunnel", timeout))

WaitRunning == wait.pc \in {"probe", "answer", "sleep"}
WaitEnded == wait.pc \in {"returned", "raised"}

\* Variant of DeadlinePassed that never reports the deadline as passed.
DeadlinePassed_never(t, deadline) == FALSE

\* time() > deadline
DeadlinePassed(t, deadline) == t > deadline

\* The clock after d more ticks.  The loop only compares the clock with the
\* deadline, so it is counted up to one tick past the deadline and no further.
Advance(t, d, deadline) ==
    IF t + d <= deadline + 1 THEN t + d
    ELSE IF t > deadline + 1 THEN t ELSE deadline + 1

\* Variant of WaitProbe that looks at the deadline before it probes: a call
\* whose deadline has passed raises without a GET.
WaitProbe_deadline_first ==
    /\ wait.pc = "probe"
    /\ IF DeadlinePassed(now, wait.deadline)
       THEN /\ wait' = [wait EXCEPT !.pc = "raised", !.error = "TimeoutError"]
            /\ last_result' = "TimeoutError"
            /\ UNCHANGED now
       ELSE /\ \E d \in 0..ProbeTimeoutTicks : now' = Advance(now, d, wait.deadline)
            /\ wait' = [wait EXCEPT !.pc = "answer"]
            /\ UNCHANGED last_result

\* async with s.get(self.api_url, timeout=3): the GET takes up to its timeout
WaitProbe ==
    /\ wait.pc = "probe"
    /\ \E d \in 0..ProbeTimeoutTicks : now' = Advance(now, d, wait.deadline)
    /\ wait' = [wait EXCEPT !.pc = "answer"]
    /\ UNCHANGED last_result

\* the rest of one turn of the while loop, up to the sleep: the scan of the
\* answer (any exception is swallowed) and the deadline check
WaitAnswer ==
    /\ wait.pc = "answer"
    /\ \E answer \in ProbeOutcomes :
          LET pub == answer.pub
              seen == [wait EXCEPT !.probed = TRUE, !.offered = @ \/ answer.offered]
          IN  wait' =
                 IF pub.some THEN [seen EXCEPT !.pc = "returned", !.result = pub]
                 ELSE IF DeadlinePassed(now, wait.deadline)
                 THEN [seen EXCEPT !.pc = "raised", !.error = "TimeoutError"]
                 ELSE [seen EXCEPT !.pc = "sleep"]
    /\ last_result' = IF wait'.pc = "raised" THEN "TimeoutError"
                      ELSE IF wait'.pc = "returned" THEN "ok" ELSE last_result
    /\ UNCHANGED now

\* Variant of WaitScan without the "except Exception: pass": an error of the
\* GET leaves the call as it is.
WaitScan_uncaught ==
    /\ wait.pc = "answer"
    /\ \E resp \in Responses :
          LET pub == ProbeResult(resp)
              seen == [wait EXCEPT !.probed = TRUE, !.offered = @ \/ OffersHttps(resp),
                                   !.answer = resp]
          IN  wait' =
                 IF resp.kind = "error" THEN [seen EXCEPT !.pc = "raised", !.error = "ClientError"]
                 ELSE IF pub.some THEN [seen EXCEPT !.pc = "returned", !.result = pub]
                 ELSE IF DeadlinePassed(now, wait.deadline)
                 THEN [seen EXCEPT !.pc = "raised", !.error = "TimeoutError"]
                 ELSE [seen EXCEPT !.pc = "sleep"]
    /\ last_result' = IF wait'.pc = "raised" THEN wait'.error
                      ELSE IF wait'.pc = "returned" THEN "ok" ELSE last_result
    /\ UNCHANGED now

\* WaitAnswer with the answer of the discovery API kept on record: data is
\* the decoded answer, the for loop scans data["tunnels"]
WaitScan ==
    /\ wait.pc = "answer"
    /\ \E resp \in Responses :
          LET pub == ProbeResult(resp)
              seen == [wait EXCEPT !.probed = TRUE, !.offered = @ \/ OffersHttps(resp),
                                   !.answer = resp]
          IN  wait' =
                 IF pub.some THEN [seen EXCEPT !.pc = "returned", !.result = pub]
                 ELSE IF DeadlinePassed(now, wait.deadline)
                 THEN [seen EXCEPT !.pc = "raised", !.error = "TimeoutError"]
                 ELSE [seen EXCEPT !.pc = "sleep"]
    /\ last_result' = IF wait'.pc = "raised" THEN "TimeoutError"
                      ELSE IF wait'.pc = "returned" THEN "ok" ELSE last_result
    /\ UNCHANGED now

\* await asyncio.sleep(0.5); the next turn of the loop rebinds data
WaitSleep ==
    /\ wait.pc = "sleep"
    /\ now' = Advance(now, SleepTicks, wait.deadline)
    /\ wait' = [wait EXCEPT !.pc = "probe", !.answer = NoAnswer]
    /\ UNCHANGED last_result

\* the caller takes the result of the call: the frame of the coroutine is gone
WaitCollect ==
    /\ WaitEnded
    /\ wait' = WaitIdle
    /\ now' = 0

WaitStep ==
    /\ WaitProbe \/ WaitAnswer \/ WaitSleep
    /\ UNCHANGED <<procVars, mgr_calls, hostVars>>


\* start(port): self.proc = subprocess.Popen(cmd); Popen raises when the
\* binary cannot be executed
Start(by) ==
    /\ mgr_calls' = Append(mgr_calls, Call("start", 0))
    /\ \/ /\ \E pid \in Pids :
                /\ procs[pid].state = "unborn"
                /\ \A q \in Pids : q < pid => procs[q].state # "unborn"
                /\ procs' = [procs EXCEPT ![pid] = [NoProc EXCEPT !.state = "running", !.by = by]]
                /\ proc' = pid
          /\ last_result' = "ok"
       \/ /\ ~binary_in_path
          /\ last_result' = "FileNotFoundError"
          /\ UNCHANGED procVars

\* Variant of Stop without the "self.proc and" guard: poll() is called on None.
Stop_unguarded ==
    /\ mgr_calls' = Append(mgr_calls, Call("stop", 0))
    /\ IF proc = 0
       THEN /\ last_result' = "AttributeError"
            /\ UNCHANGED procVars
       ELSE /\ IF procs[proc].state = "running"
               THEN procs' = [procs EXCEPT ![proc] = [@ EXCEPT !.state = "exited", !.sigint = @ + 1]]
               ELSE UNCHANGED procs
            /\ proc' = 0
            /\ last_result' = "ok"

\* stop(): SIGINT and a wait of 5 s if the process is alive, kill() if either
\* raises; then self.proc = None
Stop ==
    /\ mgr_calls' = Append(mgr_calls, Call("stop", 0))
    /\ IF proc # 0 /\ procs[proc].state = "running"
       THEN \E outcome \in {"exited", "wait_timeout", "signal_failed"} :
               procs' = [procs EXCEPT ![proc] =
                   CASE outcome = "exited" ->
                            [@ EXCEPT !.state = "exited", !.sigint = @ + 1]
                     [] outcome = "wait_timeout" ->
                            [@ EXCEPT !.state = "exited", !.sigint = @ + 1, !.sigkill = @ + 1]
                     [] outcome = "signal_failed" ->
                            [@ EXCEPT !.state = "exited", !.sigkill = @ + 1]]
       ELSE UNCHANGED procs
    /\ proc' = 0
    /\ last_result' = "ok"

\* the tunnel process ends by itself
ProcExit ==
    /\ \E pid \in Pids :
          /\ procs[pid].state = "running"
          /\ procs' = [procs EXCEPT ![pid] = [@ EXCEPT !.state = "exited"]]
    /\ UNCHANGED <<proc, mgr_calls, last_result, hostVars, waitVars>>

(***************************************************************************)
(* install() and ensure_token() of NgrokManager.                           *)
(***************************************************************************)
\* Variant of InstallCommands with the repository registered before the key
\* is imported.
InstallCommands_repo_first == <<"add_repo", "import_key", "apt_update_install">>

\* the three shell commands of install(), in the order it runs them
InstallCommands == <<"import_key", "add_repo", "apt_update_install">>

\* the codename argument of install()
CodenameArgs == {None, Some(<<"x">>)}

\* Variant of Install without the "if self._exists_in_path(): return" check.
Install_unchecked(codename) ==
    /\ mgr_calls' = Append(mgr_calls, Call("install", 0))
    /\ os_release_reads' = IF Truthy(codename) THEN os_release_reads ELSE os_release_reads + 1
    /\ \E failed_at \in 0..Len(InstallCommands) :
          IF failed_at > 0
          THEN /\ shell_log' = shell_log \o SubSeq(InstallCommands, 1, failed_at)
               /\ last_result' = "CalledProcessError"
               /\ UNCHANGED <<binary_in_path, usr_bin_ngrok>>
          ELSE /\ shell_log' = shell_log \o InstallCommands
               /\ \E found \in BOOLEAN, usr_bin \in BOOLEAN :
                     /\ found => usr_bin
                     /\ binary_in_path' = found
                     /\ usr_bin_ngrok' = usr_bin
                     /\ last_result' = IF ~found /\ ~usr_bin THEN "RuntimeError" ELSE "ok"
    /\ UNCHANGED ngrok_cfg

\* install(codename=...): nothing if the binary is on the PATH; else the
\* codename is read from /etc/os-release unless one was given, the three
\* commands run, each of which may fail (check=True raises), and the binary
\* is looked for on the PATH and, failing that, at /usr/bin/ngrok, where the
\* package puts it
Install(codename) ==
    /\ mgr_calls' = Append(mgr_calls, Call("install", 0))
    /\ IF binary_in_path
       THEN /\ last_result' = "ok"
            /\ UNCHANGED <<binary_in_path, usr_bin_ngrok, shell_log, os_release_reads>>
       ELSE /\ os_release_reads' =
                  IF Truthy(codename) THEN os_release_reads ELSE os_release_reads + 1
            /\ \E failed_at \in 0..Len(InstallCommands) :
                  IF failed_at > 0
                  THEN /\ shell_log' = shell_log \o SubSeq(InstallCommands, 1, failed_at)
                       /\ last_result' = "CalledProcessError"
                       /\ UNCHANGED <<binary_in_path, usr_bin_ngrok>>
                  ELSE /\ shell_log' = shell_log \o InstallCommands
                       /\ \E found \in BOOLEAN, usr_bin \in BOOLEAN :
                             /\ found => usr_bin
                             /\ binary_in_path' = found
                             /\ usr_bin_ngrok' = usr_bin
                             /\ last_result' = IF ~found /\ ~usr_bin THEN "RuntimeError" ELSE "ok"
    /\ UNCHANGED ngrok_cfg

\* authentication tokens
Token_x == <<"x">>
Token_y == <<"y">>

\* Variant of EnsureToken without the "if not cfg.exists()" check.
EnsureToken_overwrite(token) ==
    /\ mgr_calls' = Append(mgr_calls, Call("ensure_token", 0))
    /\ \E ran \in BOOLEAN :
          /\ ngrok_cfg' = IF ran THEN Some(token) ELSE ngrok_cfg
          /\ last_result' = IF ran THEN "ok" ELSE "CalledProcessError"
    /\ UNCHANGED <<binary_in_path, usr_bin_ngrok, shell_log, os_release_reads>>

\* ensure_token(token): ngrok config add-authtoken only if ngrok.yml is absent
EnsureToken(token) ==
    /\ mgr_calls' = Append(mgr_calls, Call("ensure_token", 0))
    /\ IF ~ngrok_cfg.some
       THEN \E ran \in BOOLEAN :
               /\ ngrok_cfg' = IF ran THEN Some(token) ELSE ngrok_cfg
               /\ last_result' = IF ran THEN "ok" ELSE "CalledProcessError"
       ELSE /\ last_result' = "ok"
            /\ UNCHANGED ngrok_cfg
    /\ UNCHANGED <<binary_in_path, usr_bin_ngrok, shell_log, os_release_reads>>

(***************************************************************************)
(* One NgrokManager driven by its caller, one call at a time.              *)
(***************************************************************************)
CanCall == ~WaitRunning /\ Len(mgr_calls) < MaxCalls

CallStart ==
    /\ CanCall
    /\ Start("caller")
    /\ UNCHANGED <<hostVars, waitVars>>

CallStop ==
    /\ CanCall
    /\ Stop
    /\ UNCHANGED <<hostVars, waitVars>>

CallInstall ==
    /\ CanCall
    /\ \E codename \in CodenameArgs : Install(codename)
    /\ UNCHANGED <<procVars, waitVars>>

CallEnsureToken ==
    /\ CanCall
    /\ \E token \in {Token_x, Token_y} : EnsureToken(token)
    /\ UNCHANGED <<procVars, waitVars>>

CallWait ==
    /\ ~WaitRunning
    /\ Len(mgr_calls) < MaxWaitCalls
    /\ \E timeout \in (-1)..MaxTimeoutTicks : WaitCall(timeout)
    /\ UNCHANGED <<procVars, last_result, hostVars>>

InitMgrVars ==
    /\ proc = 0
    /\ procs = [pid \in Pids |-> NoProc]
    /\ mgr_calls = <<>>
    /\ last_result = "ok"
    /\ ngrok_cfg = None
    /\ shell_log = <<>>
    /\ os_release_reads = 0
    /\ now = 0
    /\ wait = WaitIdle

InitNoApp ==
    /\ cls = "none"
    /\ base_url_arg = None
    /\ allowed_updates_arg = None
    /\ ngrok_mgr = "none"
    /\ mgr_injected = FALSE
    /\ ngrok_token = None
    /\ app_pc = "none"
    /\ registered = None
    /\ app_trace = <<>>
    /\ app_error = "none"
    /\ base = None
    /\ quick_probe = "none"

\* no LongPolling transport runs
InitNoPoll ==
    /\ poll = [pc |-> "none", drop_pending_updates |-> FALSE, clears |-> 0, fetches |-> 0,
               error |-> "none"]
    /\ updates = <<>>
    /\ feed_order = <<>>

InitNoRequests ==
    /\ requests = [r \in RequestIds |-> NoRequest]
    /\ feed_calls = [r \in RequestIds |-> 0]
    /\ event_log = [r \in RequestIds |-> <<>>]

InitNoTransport ==
    /\ webhook_secret = Secret_abc123
    /\ base_url = None
    /\ webhook_url = None
    /\ webhook_path = Path_default
    /\ drop_pending = TRUE
    /\ allowed_updates = None
    /\ http_session = "none"

InitMgr ==
    /\ InitMgrVars
    /\ InitNoPoll
    /\ binary_in_path \in BOOLEAN
    /\ usr_bin_ngrok = binary_in_path
    /\ InitNoApp
    /\ InitNoRequests
    /\ InitNoTransport

NextMgr ==
    \/ (CallStart /\ UNCHANGED <<transportVars, handleVars, pollVars, appVars>>)
    \/ (CallStop /\ UNCHANGED <<transportVars, handleVars, pollVars, appVars>>)
    \/ (CallInstall /\ UNCHANGED <<transportVars, handleVars, pollVars, appVars>>)
    \/ (CallEnsureToken /\ UNCHANGED <<transportVars, handleVars, pollVars, appVars>>)
    \/ (ProcExit /\ UNCHANGED <<transportVars, handleVars, pollVars, appVars>>)

SpecMgr == InitMgr /\ [][NextMgr]_vars

(***************************************************************************)
(* wait_for_https_tunnel called with any timeout, against any discovery    *)
(* endpoint.                                                               *)
(***************************************************************************)
\* the poll loop of a manager used on its own
WaitLoop == WaitStep /\ UNCHANGED <<transportVars, handleVars, pollVars, appVars>>

NextWait ==
    \/ (CallWait /\ UNCHANGED <<transportVars, handleVars, pollVars, appVars>>)
    \/ WaitLoop

SpecWait == InitMgr /\ [][NextWait]_vars

\* the event loop runs a scheduled coroutine: the poll loop takes its next step
FairSpecWait == SpecWait /\ WF_vars(WaitLoop)

\* the poll loop with every answer of the discovery API kept on record
ScanLoop ==
    /\ WaitProbe \/ WaitScan \/ WaitSleep
    /\ UNCHANGED <<procVars, mgr_calls, hostVars, transportVars, handleVars, pollVars, appVars>>

NextScan ==
    \/ (CallWait /\ UNCHANGED <<transportVars, handleVars, pollVars, appVars>>)
    \/ ScanLoop

SpecScan == InitMgr /\ [][NextScan]_vars

(***************************************************************************)
(* One run of a webhook transport: construction, run_polling, the startup  *)
(* sequence, serving, the cleanup sequence.                                *)
(***************************************************************************)

Did(op, arg) == Append(app_trace, Call(op, arg))
InTrace(op) == \E i \in 1..Len(app_trace) : app_trace[i].op = op

\* startup raised: web.run_app lets the exception out
Fail(error) ==
    /\ app_pc' = "failed"
    /\ app_error' = error

\* run_polling(drop_pending_updates=...): routes, hooks, web.run_app
RunPolling ==
    /\ app_pc = "constructed"
    /\ drop_pending' \in BOOLEAN
    /\ app_pc' = "startup"
    /\ UNCHANGED <<webhook_secret, base_url, webhook_url, webhook_path, allowed_updates,
                   http_session, handleVars, pollVars, mgrVars, cls, base_url_arg, allowed_updates_arg,
                   ngrok_mgr,
                   mgr_injected, ngrok_token, registered, app_trace, app_error, base,
                   quick_probe>>

\* _on_startup: self.app["http_session"] = ClientSession(...)
OpenSession ==
    /\ app_pc = "startup"
    /\ http_session' = "open"
    /\ app_trace' = Did("ClientSession", 0)
    /\ app_pc' = "resolve"
    /\ UNCHANGED <<webhook_secret, base_url, webhook_url, webhook_path, drop_pending,
                   allowed_updates, handleVars, pollVars, mgrVars, cls, base_url_arg, allowed_updates_arg,
                   ngrok_mgr,
                   mgr_injected, ngrok_token, registered, app_error, base, quick_probe>>

\* Variant of ResolveStatic without the "if not self._base_url" check: the
\* resolution returns whatever the field holds, stripped.
ResolveStatic_unchecked ==
    /\ app_pc = "resolve"
    /\ cls = "WebhookBot"
    /\ base' = Some(RStrip(base_url.val, "/"))
    /\ app_pc' = "register"
    /\ UNCHANGED <<transportVars, handleVars, pollVars, mgrVars, cls, base_url_arg, allowed_updates_arg,
                   ngrok_mgr,
                   mgr_injected, ngrok_token, registered, app_trace, app_error, quick_probe>>

\* WebhookBot._resolve_public_base_url
ResolveStatic ==
    /\ app_pc = "resolve"
    /\ cls = "WebhookBot"
    /\ IF ~Truthy(base_url)
       THEN /\ Fail("AttributeError")
            /\ UNCHANGED base
       ELSE /\ base' = Some(RStrip(base_url.val, "/"))
            /\ app_pc' = "register"
            /\ UNCHANGED app_error
    /\ UNCHANGED <<transportVars, handleVars, pollVars, mgrVars, cls, base_url_arg, allowed_updates_arg,
                   ngrok_mgr,
                   mgr_injected, ngrok_token, registered, app_trace, quick_probe>>

\* NgrokWebhook._resolve_public_base_url up to the call of install()
ResolveNgrok ==
    /\ app_pc = "resolve"
    /\ cls = "NgrokWebhook"
    /\ IF Truthy(base_url)
       THEN /\ base' = Some(RStrip(base_url.val, "/"))
            /\ app_pc' = "register"
            /\ UNCHANGED ngrok_mgr
       ELSE /\ ngrok_mgr' = "mgr"
            /\ app_pc' = "install"
            /\ UNCHANGED base
    /\ UNCHANGED <<transportVars, handleVars, pollVars, mgrVars, cls, base_url_arg, allowed_updates_arg,
                   mgr_injected,
                   ngrok_token, registered, app_trace, app_error, quick_probe>>

\* self._ngrok_mgr.install()
ResolveInstall ==
    /\ app_pc = "install"
    /\ Install(None)
    /\ app_trace' = Did("install", 0)
    /\ IF last_result' = "ok"
       THEN app_pc' = "token" /\ UNCHANGED app_error
       ELSE Fail(last_result')
    /\ UNCHANGED <<transportVars, handleVars, pollVars, procVars, waitVars, cls, base_url_arg, allowed_updates_arg,
                   ngrok_mgr, mgr_injected, ngrok_token, registered, base, quick_probe>>

\* if self._ngrok_token: ensure_token(...); then the call of the 1 s probe
ResolveToken ==
    /\ app_pc = "token"
    /\ IF Truthy(ngrok_token)
       THEN /\ EnsureToken(ngrok_token.val)
            /\ app_trace' = Did("ensure_token", 0)
            /\ IF last_result' = "ok"
               THEN app_pc' = "call_probe" /\ UNCHANGED app_error
               ELSE Fail(last_result')
       ELSE /\ app_pc' = "call_probe"
            /\ UNCHANGED <<mgr_calls, last_result, hostVars, app_trace, app_error>>
    /\ UNCHANGED <<transportVars, handleVars, pollVars, procVars, waitVars, cls, base_url_arg, allowed_updates_arg,
                   ngrok_mgr, mgr_injected, ngrok_token, registered, base, quick_probe>>

\* await self._ngrok_mgr.wait_for_https_tunnel(timeout=1.0)
ResolveCallProbe ==
    /\ app_pc = "call_probe"
    /\ WaitCall(QuickTimeoutTicks)
    /\ app_trace' = Did("wait_for_https_tunnel", QuickTimeoutTicks)
    /\ app_pc' = "probe"
    /\ UNCHANGED <<transportVars, handleVars, pollVars, procVars, last_result, hostVars, cls,
                   base_url_arg, allowed_updates_arg,
                   ngrok_mgr, mgr_injected, ngrok_token, registered,
                   app_error, base, quick_probe>>

\* the poll loop of the manager, awaited by the resolution
ResolveWaitLoop ==
    /\ app_pc \in {"probe", "wait"}
    /\ WaitStep
    /\ UNCHANGED <<transportVars, handleVars, pollVars, appVars>>

\* Variant of StartsTunnel that starts ngrok whatever the probe found.
StartsTunnel_always(probe) == TRUE

\* the except clause around the 1 s probe: ngrok is started only if it raised
StartsTunnel(probe) == probe.pc = "raised"

\* the 1 s probe returned a URL, or raised and the exception is dropped
ResolveAfterProbe ==
    /\ app_pc = "probe"
    /\ WaitEnded
    /\ quick_probe' = wait.pc
    /\ IF StartsTunnel(wait)
       THEN /\ app_pc' = "start"
            /\ UNCHANGED base
       ELSE /\ base' = wait.result
            /\ app_pc' = "register"
    /\ WaitCollect
    /\ UNCHANGED <<transportVars, handleVars, pollVars, procVars, mgr_calls, last_result, hostVars,
                   cls, base_url_arg, allowed_updates_arg,
                   ngrok_mgr, mgr_injected, ngrok_token, registered,
                   app_trace, app_error>>

\* self._ngrok_mgr.start(port=...); then the call of the 30 s wait
ResolveStart ==
    /\ app_pc = "start"
    /\ Start("transport")
    /\ app_trace' = Did("start", 0)
    /\ IF last_result' = "ok"
       THEN app_pc' = "call_wait" /\ UNCHANGED app_error
       ELSE Fail(last_result')
    /\ UNCHANGED <<transportVars, handleVars, pollVars, hostVars, waitVars, cls, base_url_arg, allowed_updates_arg,
                   ngrok_mgr, mgr_injected, ngrok_token, registered, base, quick_probe>>

\* return await self._ngrok_mgr.wait_for_https_tunnel(timeout=30.0)
ResolveCallWait ==
    /\ app_pc = "call_wait"
    /\ WaitCall(LongTimeoutTicks)
    /\ app_trace' = Did("wait_for_https_tunnel", LongTimeoutTicks)
    /\ app_pc' = "wait"
    /\ UNCHANGED <<transportVars, handleVars, pollVars, procVars, last_result, hostVars, cls,
                   base_url_arg, allowed_updates_arg,
                   ngrok_mgr, mgr_injected, ngrok_token, registered,
                   app_error, base, quick_probe>>

\* Variant of ResolveAfterWait that stops the manager before it lets the
\* TimeoutError out.
ResolveAfterWait_stopping ==
    /\ app_pc = "wait"
    /\ WaitEnded
    /\ IF wait.pc = "returned"
       THEN /\ base' = wait.result
            /\ app_pc' = "register"
            /\ UNCHANGED <<app_error, procVars, mgr_calls, last_result>>
       ELSE /\ Stop
            /\ Fail(wait.error)
            /\ UNCHANGED base
    /\ WaitCollect
    /\ UNCHANGED <<transportVars, handleVars, pollVars, hostVars, cls, base_url_arg,
                   allowed_updates_arg, ngrok_mgr, mgr_injected, ngrok_token, registered,
                   app_trace, quick_probe>>

\* the 30 s wait returned a URL, or its TimeoutError ends the startup
ResolveAfterWait ==
    /\ app_pc = "wait"
    /\ WaitEnded
    /\ IF wait.pc = "returned"
       THEN /\ base' = wait.result
            /\ app_pc' = "register"
            /\ UNCHANGED app_error
       ELSE /\ Fail(wait.error)
            /\ UNCHANGED base
    /\ WaitCollect
    /\ UNCHANGED <<transportVars, handleVars, pollVars, procVars, mgr_calls, last_result, hostVars,
                   cls, base_url_arg, allowed_updates_arg,
                   ngrok_mgr, mgr_injected, ngrok_token, registered,
                   app_trace, quick_probe>>

\* _on_startup after the resolution: the URL, the default allow-list and
\* set_webhook, which may raise
SetWebhook ==
    /\ app_pc = "register"
    /\ webhook_url' = Some(base.val \o webhook_path)
    /\ allowed_updates' = IF ~allowed_updates.some THEN Some(Default_allowed_updates)
                          ELSE allowed_updates
    /\ app_trace' = Did("set_webhook", 0)
    /\ \E raised \in BOOLEAN :
          IF raised
          THEN /\ Fail("TelegramAPIError")
               /\ UNCHANGED registered
          ELSE /\ registered' = Some([url |-> webhook_url'.val, secret_token |-> webhook_secret,
                                      allowed_updates |-> allowed_updates'.val,
                                      drop_pending_updates |-> drop_pending])
               /\ app_pc' = "emit_startup"
               /\ UNCHANGED app_error
    /\ UNCHANGED <<webhook_secret, base_url, webhook_path, drop_pending, http_session,
                   handleVars, pollVars, mgrVars, cls, base_url_arg, allowed_updates_arg,
                   ngrok_mgr, mgr_injected,
                   ngrok_token, base, quick_probe>>

\* Variant of EmitStartup without the "except AttributeError": a dispatcher
\* that has no emit_startup ends the startup.
EmitStartup_strict ==
    /\ app_pc = "emit_startup"
    /\ app_trace' = Did("emit_startup", 0)
    /\ \E outcome \in {"ok", "AttributeError", "Exception"} :
          IF outcome = "ok"
          THEN app_pc' = "serving" /\ UNCHANGED app_error
          ELSE Fail(outcome)
    /\ UNCHANGED <<transportVars, handleVars, pollVars, mgrVars, cls, base_url_arg, allowed_updates_arg,
                   ngrok_mgr,
                   mgr_injected, ngrok_token, registered, base, quick_probe>>

\* await self._dispatcher.emit_startup(self._bot): an AttributeError is
\* dropped, any other exception of a startup hook ends the startup
EmitStartup ==
    /\ app_pc = "emit_startup"
    /\ app_trace' = Did("emit_startup", 0)
    /\ \E outcome \in {"ok", "AttributeError", "Exception"} :
          IF outcome = "Exception"
          THEN Fail("Exception")
          ELSE app_pc' = "serving" /\ UNCHANGED app_error
    /\ UNCHANGED <<transportVars, handleVars, pollVars, mgrVars, cls, base_url_arg, allowed_updates_arg,
                   ngrok_mgr,
                   mgr_injected, ngrok_token, registered, base, quick_probe>>

\* the server is told to stop: web.run_app runs the cleanup hooks
Shutdown ==
    /\ app_pc = "serving"
    /\ app_pc' = "emit_shutdown"
    /\ UNCHANGED <<transportVars, handleVars, pollVars, mgrVars, cls, base_url_arg, allowed_updates_arg,
                   ngrok_mgr,
                   mgr_injected, ngrok_token, registered, app_trace, app_error, base,
                   quick_probe>>

\* cleanup raised: the rest of the cleanup hook is skipped
FailCleanup(error) ==
    /\ app_pc' = "cleanup_failed"
    /\ app_error' = error

\* WebhookBot._on_cleanup: emit_shutdown, an AttributeError is dropped
EmitShutdown ==
    /\ app_pc = "emit_shutdown"
    /\ app_trace' = Did("emit_shutdown", 0)
    /\ \E outcome \in {"ok", "AttributeError", "Exception"} :
          IF outcome = "Exception"
          THEN FailCleanup("Exception")
          ELSE app_pc' = "delete_webhook" /\ UNCHANGED app_error
    /\ UNCHANGED <<transportVars, handleVars, pollVars, mgrVars, cls, base_url_arg, allowed_updates_arg,
                   ngrok_mgr,
                   mgr_injected, ngrok_token, registered, base, quick_probe>>

\* await self._bot.delete_webhook(), which may raise
DeleteWebhook ==
    /\ app_pc = "delete_webhook"
    /\ app_trace' = Did("delete_webhook", 0)
    /\ \E raised \in BOOLEAN :
          IF raised
          THEN /\ FailCleanup("TelegramAPIError")
               /\ UNCHANGED registered
          ELSE /\ registered' = None
               /\ app_pc' = "close_session"
               /\ UNCHANGED app_error
    /\ UNCHANGED <<transportVars, handleVars, pollVars, mgrVars, cls, base_url_arg, allowed_updates_arg,
                   ngrok_mgr,
                   mgr_injected, ngrok_token, base, quick_probe>>

\* await self.app["http_session"].close(); the end of WebhookBot._on_cleanup
CloseSession ==
    /\ app_pc = "close_session"
    /\ http_session' = "closed"
    /\ app_trace' = Did("session_close", 0)
    /\ app_pc' = IF cls = "NgrokWebhook" THEN "ngrok_cleanup" ELSE "stopped"
    /\ UNCHANGED <<webhook_secret, base_url, webhook_url, webhook_path, drop_pending,
                   allowed_updates, handleVars, pollVars, mgrVars, cls, base_url_arg, allowed_updates_arg,
                   ngrok_mgr,
                   mgr_injected, ngrok_token, registered, app_error, base, quick_probe>>

\* NgrokWebhook._on_cleanup after super()._on_cleanup: if self._ngrok_mgr
StopsManager == ngrok_mgr # "none"

NgrokCleanup ==
    /\ app_pc = "ngrok_cleanup"
    /\ IF StopsManager
       THEN /\ Stop
            /\ app_trace' = Did("stop", 0)
       ELSE UNCHANGED <<procVars, mgr_calls, last_result, app_trace>>
    /\ app_pc' = "stopped"
    /\ UNCHANGED <<transportVars, handleVars, pollVars, hostVars, waitVars, cls, base_url_arg, allowed_updates_arg,
                   ngrok_mgr, mgr_injected, ngrok_token, registered, app_error, base,
                   quick_probe>>

\* the tunnel process ends by itself while the transport runs
AppProcExit ==
    /\ app_pc \notin {"constructed", "stopped", "failed", "cleanup_failed"}
    /\ ProcExit
    /\ UNCHANGED <<transportVars, handleVars, pollVars, appVars>>

\* Variant of Listening in which the listener is bound before the startup
\* hooks have run.
Listening_early == app_pc \notin {"constructed", "stopped", "failed", "cleanup_failed"}

\* web.run_app binds the listener after the on_startup hooks have returned and
\* closes it before it runs the on_cleanup hooks
Listening == app_pc = "serving"

\* Variant of Serve in which callback requests are taken from run_polling
\* on, while the startup hook is still running.
Serve_during_startup ==
    /\ app_pc \notin {"constructed", "stopped", "failed", "cleanup_failed"}
    /\ \/ Arrive(1)
       \/ HandleAuth(1)
       \/ HandleJson(1)
       \/ HandleDispatch(1)
       \/ HandleFeedDone(1)

\* a callback request is taken and handled by _handle while the server
\* listens; a handler still running when the server stops is cancelled
Serve ==
    /\ Listening
    /\ \/ Arrive(1)
       \/ HandleAuth(1)
       \/ HandleJson(1)
       \/ HandleDispatch(1)
       \/ HandleFeedDone(1)

\* the arguments of the constructors
BaseUrlArgs == {None, Some(<<>>), Some(Url_https_m), Some(Url_https_m_slash)}
PathArgs == {Path_default, Path_hook}
AllowedArgs == {None, Some(<<"message">>)}
TokenArgs == {None, Some(Token_x)}

\* WebhookBot.__init__ and NgrokWebhook.__init__, which drops the base_url,
\* webhook_path and allowed_updates it is given; an injected NgrokManager is
\* fresh, or its start() was called by the caller
InitApp ==
    /\ cls \in {"WebhookBot", "NgrokWebhook"}
    /\ base_url_arg \in (IF cls = "WebhookBot" THEN BaseUrlArgs ELSE {None, Some(Url_https_m_slash)})
    /\ base_url = IF cls = "WebhookBot" THEN base_url_arg ELSE None
    /\ webhook_secret = Secret_abc123
    /\ \E path \in PathArgs :
          webhook_path = NormalizePath(IF cls = "WebhookBot" THEN path ELSE Path_default)
    /\ allowed_updates_arg \in AllowedArgs
    /\ allowed_updates = IF cls = "WebhookBot" THEN allowed_updates_arg ELSE None
    /\ webhook_url = None
    /\ drop_pending = TRUE
    /\ http_session = "none"
    /\ InitNoRequests
    /\ InitNoPoll
    /\ mgr_injected \in (IF cls = "NgrokWebhook" THEN BOOLEAN ELSE {FALSE})
    /\ ngrok_mgr = IF mgr_injected THEN "mgr" ELSE "none"
    /\ ngrok_token \in (IF cls = "NgrokWebhook" THEN TokenArgs ELSE {None})
    /\ \E started \in (IF mgr_injected THEN BOOLEAN ELSE {FALSE}) :
          /\ proc = IF started THEN 1 ELSE 0
          /\ procs = [pid \in Pids |->
                IF started /\ pid = 1
                THEN [NoProc EXCEPT !.state = "running", !.by = "caller"] ELSE NoProc]
          /\ mgr_calls = IF started THEN <<Call("start", 0)>> ELSE <<>>
    /\ last_result = "ok"
    /\ binary_in_path \in (IF cls = "NgrokWebhook" THEN BOOLEAN ELSE {TRUE})
    /\ usr_bin_ngrok = binary_in_path
    /\ ngrok_cfg \in (IF ngrok_token.some THEN {None, Some(Token_y)} ELSE {None})
    /\ shell_log = <<>>
    /\ os_release_reads = 0
    /\ now = 0
    /\ wait = WaitIdle
    /\ app_pc = "constructed"
    /\ registered = None
    /\ app_trace = <<>>
    /\ app_error = "none"
    /\ base = None
    /\ quick_probe = "none"

NextApp ==
    \/ RunPolling
    \/ OpenSession
    \/ ResolveStatic
    \/ ResolveNgrok
    \/ ResolveInstall
    \/ ResolveToken
    \/ ResolveCallProbe
    \/ ResolveWaitLoop
    \/ ResolveAfterProbe
    \/ ResolveStart
    \/ ResolveCallWait
    \/ ResolveAfterWait
    \/ SetWebhook
    \/ EmitStartup
    \/ Serve
    \/ Shutdown
    \/ EmitShutdown
    \/ DeleteWebhook
    \/ CloseSession
    \/ NgrokCleanup
    \/ AppProcExit

SpecApp == InitApp /\ [][NextApp]_vars

(***************************************************************************)
(* The callback route of a running server, requests handled concurrently.  *)
(***************************************************************************)
\* a running WebhookBot: the state after a successful startup
InitHandle ==
    /\ InitNoPoll
    /\ webhook_secret \in Secrets
    /\ base_url = Some(Url_https_m)
    /\ webhook_url = Some(Url_https_m \o Path_default)
    /\ webhook_path = Path_default
    /\ drop_pending = TRUE
    /\ allowed_updates = Some(Default_allowed_updates)
    /\ http_session = "open"
    /\ InitNoRequests
    /\ InitMgrVars
    /\ binary_in_path = TRUE
    /\ usr_bin_ngrok = binary_in_path
    /\ InitNoApp

NextHandle ==
    \E r \in RequestIds :
        \/ Arrive(r)
        \/ HandleAuth(r)
        \/ HandleJson(r)
        \/ HandleDispatch(r)
        \/ HandleFeedDone(r)

SpecHandle == InitHandle /\ [][NextHandle]_vars

(***************************************************************************)
(* The LongPolling transport: _run, and Dispatcher.start_polling as _run   *)
(* calls it (handle_as_tasks is left at its default, True).                *)
(***************************************************************************)
\* the updates one get_updates call returned, as fetched in batch number b
Batch(b, n) == [i \in 1..n |-> [batch |-> b, state |-> "fetched"]]

\* the first update in the given dispatch state, 0 if there is none
FirstIn(state) ==
    IF \E i \in 1..Len(updates) : updates[i].state = state
    THEN CHOOSE i \in 1..Len(updates) :
            /\ updates[i].state = state
            /\ \A j \in 1..(i - 1) : updates[j].state # state
    ELSE 0

\* run_polling(drop_pending_updates): asyncio.run(self._run(...)) up to the
\* test of the flag
PollRun ==
    /\ poll.pc = "constructed"
    /\ poll' = [poll EXCEPT !.pc = IF poll.drop_pending_updates THEN "clear" ELSE "fetch"]
    /\ UNCHANGED <<updates, feed_order, transportVars, handleVars, mgrVars, appVars>>

\* await self._bot.delete_webhook(drop_pending_updates=True), which may raise
PollClear ==
    /\ poll.pc = "clear"
    /\ \E raised \in BOOLEAN :
          poll' = [poll EXCEPT !.clears = @ + 1,
                               !.pc = IF raised THEN "failed" ELSE "fetch",
                               !.error = IF raised THEN "TelegramAPIError" ELSE @]
    /\ UNCHANGED <<updates, feed_order, transportVars, handleVars, mgrVars, appVars>>

\* start_polling: one get_updates call returns a list of updates (a failed
\* call changes nothing and is retried after the backoff)
PollFetch ==
    /\ poll.pc = "fetch"
    /\ poll.fetches < MaxFetches
    /\ \E n \in 0..MaxBatch :
          /\ updates' = updates \o Batch(poll.fetches + 1, n)
          /\ poll' = [poll EXCEPT !.fetches = @ + 1, !.pc = IF n > 0 THEN "spawn" ELSE "fetch"]
    /\ UNCHANGED <<feed_order, transportVars, handleVars, mgrVars, appVars>>

\* start_polling takes the next update of the batch and, handle_as_tasks
\* being True, wraps its processing in asyncio.create_task without awaiting
\* it; after the last update of the batch it awaits the next get_updates
PollSpawn ==
    /\ poll.pc = "spawn"
    /\ updates' = [updates EXCEPT ![FirstIn("fetched")].state = "task"]
    /\ poll' = [poll EXCEPT !.pc = IF FirstIn("fetched") = Len(updates) THEN "fetch" ELSE "spawn"]
    /\ UNCHANGED <<feed_order, transportVars, handleVars, mgrVars, appVars>>

\* the event loop runs the tasks in the order they were created, while the
\* polling coroutine is suspended in get_updates: the dispatcher begins to
\* process the update
PollTaskStart ==
    /\ poll.pc = "fetch"
    /\ FirstIn("task") # 0
    /\ updates' = [updates EXCEPT ![FirstIn("task")].state = "running"]
    /\ feed_order' = Append(feed_order, FirstIn("task"))
    /\ UNCHANGED <<poll, transportVars, handleVars, mgrVars, appVars>>

\* the processing of an update ends: its handlers returned or raised
PollTaskEnd ==
    /\ poll.pc = "fetch"
    /\ \E i \in 1..Len(updates) :
          /\ updates[i].state = "running"
          /\ updates' = [updates EXCEPT ![i].state = "done"]
    /\ UNCHANGED <<poll, feed_order, transportVars, handleVars, mgrVars, appVars>>

InitPoll ==
    /\ \E drop \in BOOLEAN :
          poll = [pc |-> "constructed", drop_pending_updates |-> drop, clears |-> 0,
                  fetches |-> 0, error |-> "none"]
    /\ updates = <<>>
    /\ feed_order = <<>>
    /\ InitNoTransport
    /\ InitNoRequests
    /\ InitMgrVars
    /\ binary_in_path = TRUE
    /\ usr_bin_ngrok = binary_in_path
    /\ InitNoApp

NextPoll ==
    \/ PollRun
    \/ PollClear
    \/ PollFetch
    \/ PollSpawn
    \/ PollTaskStart
    \/ PollTaskEnd

SpecPoll == InitPoll /\ [][NextPoll]_vars

(***************************************************************************)
(* Claims about the callback route.                                        *)
(***************************************************************************)
Done(r) == requests[r].pc = "done"
\* the secret header is present and equal to the configured secret
HeaderCorrect(r) == requests[r].header.some /\ requests[r].header.val = webhook_secret
\* the request went past the secret check of _handle
Authenticated(r) == requests[r].authed
InList(msg, log) == \E i \in 1..Len(log) : log[i] = msg

\* C1: a request whose secret header is absent or differs from the configured
\* secret is answered 403, its body is not read and the dispatcher is not called.
\* (The code answers 500 when the header or the secret holds a non-ASCII
\* character: hmac.compare_digest raises TypeError.)
C1_RejectedGets403 ==
    \A r \in RequestIds :
        (Done(r) /\ ~HeaderCorrect(r)) =>
            /\ requests[r].status = 403
            /\ ~requests[r].body_read
            /\ feed_calls[r] = 0

\* C2: a request with the correct secret header and a well-formed update is
\* dispatched exactly once and answered 200 {"ok": true}.
C2_AcceptedDispatchedOnce ==
    \A r \in RequestIds :
        (Done(r) /\ HeaderCorrect(r) /\ model_validates(requests[r].body)) =>
            /\ requests[r].status = 200
            /\ requests[r].resp_body = Resp_ok_true
            /\ feed_calls[r] = 1

\* C3: an authenticated request with a malformed payload (undecodable, or JSON
\* that is no update) is answered 200 with {"ok": false}, is not dispatched,
\* and a failure is logged.
C3_MalformedAnsweredOkFalse ==
    \A r \in RequestIds :
        (Done(r) /\ Authenticated(r) /\ ~model_validates(requests[r].body)) =>
            /\ requests[r].status = 200
            /\ requests[r].resp_body = Resp_ok_false
            /\ feed_calls[r] = 0
            /\ Len(event_log[r]) > 0

\* C4: a request that went past the secret check is never answered with a
\* status other than 200, and an exception raised by the dispatch is logged
\* and answered 200.
C4_DispatchFailureAnswered200 ==
    \A r \in RequestIds :
        /\ (Done(r) /\ Authenticated(r)) => requests[r].status = 200
        /\ (Done(r) /\ requests[r].feed = "raised") =>
              /\ requests[r].status = 200
              /\ InList(Log_handling_failed, event_log[r])

C4_Witness ==
    \E r \in RequestIds : Done(r) /\ requests[r].feed = "raised" /\ requests[r].status = 200

\* C31: a request whose secret header is present but empty is answered 403,
\* unread and undispatched, whatever the configured secret is; and with the
\* empty string as configured secret no request passes the secret check or
\* reaches the dispatcher, a header equal to the secret included.
C31_EmptyHeaderNeverAuthenticates ==
    \A r \in RequestIds :
        /\ (requests[r].header = Some(Secret_empty) /\ requests[r].pc \notin {"none", "auth"}) =>
              /\ Done(r)
              /\ requests[r].status = 403
              /\ ~Authenticated(r)
              /\ ~requests[r].body_read
              /\ feed_calls[r] = 0
        /\ webhook_secret = Secret_empty =>
              /\ ~Authenticated(r)
              /\ ~requests[r].body_read
              /\ feed_calls[r] = 0
              /\ requests[r].pc \in {"none", "auth", "done"}
              /\ Done(r) => requests[r].status # 200

\* the configured secret is empty and a request with an empty header, equal
\* to it, and a well-formed update was answered 403
C31_Witness ==
    /\ webhook_secret = Secret_empty
    /\ \E r \in RequestIds :
          /\ Done(r)
          /\ requests[r].header = Some(webhook_secret)
          /\ requests[r].body = Body_update
          /\ requests[r].status = 403

(***************************************************************************)
(* Claims about NgrokManager.                                              *)
(***************************************************************************)
\* what _handle does with a request, given the request alone: the status and
\* the body of the answer and the number of feed_update calls
OutcomeOf(req) ==
    IF Truthy(req.header) /\ compare_digest_raises(req.header.val, webhook_secret)
    THEN [status |-> 500, resp_body |-> Resp_empty, feeds |-> 0]
    ELSE IF Rejects(req.header)
    THEN [status |-> 403, resp_body |-> Resp_empty, feeds |-> 0]
    ELSE IF ~json_decodes(req.body)
    THEN [status |-> 200, resp_body |-> Resp_ok_false, feeds |-> 0]
    ELSE IF ~model_validates(req.body)
    THEN [status |-> 200, resp_body |-> Resp_ok_true, feeds |-> 0]
    ELSE [status |-> 200, resp_body |-> Resp_ok_true, feeds |-> 1]

\* the handler of request r can take its next step
CanProceed(r) ==
    \/ ENABLED HandleAuth(r)
    \/ ENABLED HandleJson(r)
    \/ ENABLED HandleDispatch(r)
    \/ ENABLED HandleFeedDone(r)

\* C29: concurrent requests are handled independently.  The answer of a
\* request and its number of dispatcher calls (one if it passed the secret
\* check with a well-formed update, zero otherwise) are determined by the
\* request alone; a request in progress can always take its next step,
\* whatever state the other requests are in; and a step of one request changes
\* nothing of another.
C29_RequestsIndependent ==
    /\ [](\A r \in RequestIds :
            /\ Done(r) =>
                  /\ requests[r].status = OutcomeOf(requests[r]).status
                  /\ requests[r].resp_body = OutcomeOf(requests[r]).resp_body
                  /\ feed_calls[r] = OutcomeOf(requests[r]).feeds
                  /\ feed_calls[r] =
                        IF Authenticated(r) /\ model_validates(requests[r].body) THEN 1 ELSE 0
            /\ requests[r].pc \notin {"none", "done"} => CanProceed(r))
    /\ [][\A r, q \in RequestIds :
            (r # q /\ requests'[r] # requests[r]) =>
                /\ requests'[q] = requests[q]
                /\ feed_calls'[q] = feed_calls[q]
                /\ event_log'[q] = event_log[q]]_vars

\* request 2 was dispatched and answered while request 1 is still in the
\* dispatcher
C29_Witness ==
    /\ requests[1].pc = "feeding"
    /\ Done(2)
    /\ requests[2].status = 200
    /\ feed_calls[1] = 1 /\ feed_calls[2] = 1

\* C5: wait_for_https_tunnel always terminates, and against a discovery
\* endpoint that never lists an https:// public URL it ends with the
\* timeout error.
C5_WaitTerminatesWithTimeout ==
    /\ [](WaitEnded /\ ~wait.offered => wait.pc = "raised" /\ wait.error = "TimeoutError")
    /\ (WaitRunning ~> WaitEnded)

C5_Witness ==
    wait.pc = "raised" /\ ~wait.offered /\ wait.timeout = MaxTimeoutTicks
        /\ wait.error = "TimeoutError"
\* the operation that the step just taken appended to the manager's history
JustCalled(op) ==
    /\ Len(mgr_calls') = Len(mgr_calls) + 1
    /\ mgr_calls'[Len(mgr_calls')].op = op

\* C6: stop() never raises, leaves the handle None, and a stop() called when
\* the handle is already None (never started, or stopped before) sends no
\* signal and changes no process.
C6_StopIdempotent ==
    [][JustCalled("stop") =>
          /\ last_result' = "ok"
          /\ proc' = 0
          /\ (proc = 0 => procs' = procs)
          /\ \A pid \in Pids : pid # proc => procs'[pid] = procs[pid]]_vars

\* stop() was called twice in a row after a start() whose process got SIGINT
C6_Witness ==
    /\ Len(mgr_calls) >= 3
    /\ mgr_calls[Len(mgr_calls)].op = "stop"
    /\ mgr_calls[Len(mgr_calls) - 1].op = "stop"
    /\ mgr_calls[Len(mgr_calls) - 2].op = "start"
    /\ \E pid \in Pids : procs[pid].state = "exited" /\ procs[pid].sigint = 1
    /\ proc = 0
    /\ last_result = "ok"

\* C7: every live process the manager spawned is the one self.proc refers to
\* (a second start() without a stop() spawns nothing and keeps the handle).
C7_OneLiveProcess ==
    \A pid \in Pids : procs[pid].state = "running" => proc = pid

\* C26: stop() returns with no handle held, and every process this manager had
\* started and that was still alive has been told to end, by SIGINT or, failing
\* that, by kill(), and runs no more.
\* (After start(); start() the first process has no handle: stop() does not
\* signal it and it goes on running.)
C26_StopEndsStartedProcess ==
    [][JustCalled("stop") =>
          /\ last_result' = "ok"
          /\ proc' = 0
          /\ \A pid \in Pids : procs[pid].state = "running" =>
                /\ procs'[pid].state = "exited"
                /\ \/ procs'[pid].sigint = procs[pid].sigint + 1
                   \/ procs'[pid].sigkill = procs[pid].sigkill + 1]_vars

IsPrefix(a, b) == Len(a) <= Len(b) /\ SubSeq(b, 1, Len(a)) = a
\* the public_url of descriptor i of the list starts with https://
IsHttps(ts, i) == ts[i].kind = "url" /\ StartsWith(ts[i].public_url, Https)
\* the position of the first https:// descriptor of the list, 0 if none
FirstHttps(ts) ==
    IF \E i \in 1..Len(ts) : IsHttps(ts, i)
    THEN CHOOSE i \in 1..Len(ts) : IsHttps(ts, i) /\ \A j \in 1..(i - 1) : ~IsHttps(ts, j)
    ELSE 0
\* r is u without its trailing slashes
IsStripped(r, u) ==
    /\ IsPrefix(r, u)
    /\ r = <<>> \/ r[Len(r)] # "/"
    /\ \A k \in (Len(r) + 1)..Len(u) : u[k] = "/"
\* every descriptor before position i is an object whose public_url is a
\* string or is absent
ScanReaches(ts, i) == \A j \in 1..(i - 1) : ts[j].kind # "null"

\* C18: a wait_for_https_tunnel call that returns was answered a list of
\* tunnel descriptors and returns the public_url, without its trailing
\* slashes, of the first descriptor of that list whose public_url starts with
\* https://; and a list with such a descriptor, every descriptor before it
\* being skipped (other scheme, no public_url), makes the call return.
C18_FirstHttpsTunnelStripped ==
    LET ts == wait.answer.tunnels
        first == FirstHttps(ts)
    IN  /\ wait.pc = "returned" =>
              /\ wait.answer.kind = "json"
              /\ first # 0
              /\ wait.result.some
              /\ IsStripped(wait.result.val, ts[first].public_url)
        /\ (wait.answer.kind = "json" /\ first # 0 /\ ScanReaches(ts, first))
              => wait.pc = "returned"

\* the call returned https://y on the answer [http://x, https://y/]
C18_Witness ==
    /\ wait.pc = "returned"
    /\ wait.answer.kind = "json"
    /\ Len(wait.answer.tunnels) = 2
    /\ wait.answer.tunnels[1].public_url = Url_http_x
    /\ wait.answer.tunnels[2].public_url = Url_https_y_slash
    /\ wait.result = Some(Url_https_y)

\* the probe raised: the GET failed (connection refused, probe timeout,
\* undecodable body), or the scan met a descriptor with a null public_url
\* before any https:// URL
ProbeFailed(resp) ==
    \/ resp.kind = "error"
    \/ /\ resp.kind = "json"
       /\ \E i \in 1..Len(resp.tunnels) :
             /\ resp.tunnels[i].kind = "null"
             /\ \A j \in 1..(i - 1) : ~IsHttps(resp.tunnels, j)

\* C25: a probe that fails is swallowed: the call goes to its 0.5 s sleep and
\* then probes again, or, if the deadline has passed, ends with TimeoutError;
\* the call never ends with any other error.
C25_ProbeErrorsSwallowed ==
    [][/\ (wait.pc = "answer" /\ wait'.pc # "answer" /\ ProbeFailed(wait'.answer)) =>
             /\ wait'.pc = IF now > wait.deadline THEN "raised" ELSE "sleep"
             /\ ~wait'.result.some
       /\ wait.pc = "sleep" =>
             /\ wait'.pc = "probe"
             /\ now' = Advance(now, SleepTicks, wait.deadline)
       /\ wait'.pc = "raised" =>
             /\ wait'.error = "TimeoutError"
             /\ last_result' = "TimeoutError"
             /\ now > wait.deadline]_vars

\* the loop sleeps after a GET that failed, the deadline not yet passed
C25_Witness ==
    /\ wait.pc = "sleep"
    /\ wait.answer.kind = "error"
    /\ now >= SleepTicks
    /\ now <= wait.deadline

\* C30: the deadline is looked at only after a probe.  Every call that has
\* ended made at least one probe, whatever its timeout; a probe that finds an
\* https:// URL ends the call with that URL even when the deadline has passed;
\* TimeoutError is raised only in the step that follows a probe which found
\* no https:// URL, the clock being past the deadline.
C30_DeadlineCheckedAfterProbe ==
    /\ [](WaitEnded => wait.probed /\ wait.answer # NoAnswer)
    /\ [][/\ JustCalled("wait_for_https_tunnel") => wait'.pc = "probe" /\ ~wait'.probed
          /\ (wait.pc = "answer" /\ wait'.pc # "answer" /\ ProbeResult(wait'.answer).some) =>
                /\ wait'.pc = "returned"
                /\ wait'.result = ProbeResult(wait'.answer)
          /\ (wait'.pc = "raised" /\ wait.pc # "raised") =>
                /\ wait.pc = "answer"
                /\ ~ProbeResult(wait'.answer).some
                /\ now > wait.deadline
                /\ wait'.error = "TimeoutError"]_vars

\* a call with a timeout of zero or less returned the URL its probe found,
\* the clock being past the deadline
C30_Witness ==
    /\ wait.pc = "returned"
    /\ wait.timeout <= 0
    /\ now > wait.deadline
    /\ wait.result = ProbeResult(wait.answer)

\* C19: an install() called while the binary resolves on the search path,
\* whatever its arguments and however often it is called, returns normally
\* having run no shell command and read no OS release file, and leaves the
\* host and the manager as they were.
C19_InstallIdempotent ==
    [][(JustCalled("install") /\ binary_in_path) =>
          /\ last_result' = "ok"
          /\ shell_log' = shell_log
          /\ os_release_reads' = os_release_reads
          /\ UNCHANGED <<binary_in_path, usr_bin_ngrok, ngrok_cfg, procVars>>]_vars

\* install() provisioned the binary, and a later install() was the last call
C19_Witness ==
    /\ Len(mgr_calls) >= 2
    /\ mgr_calls[Len(mgr_calls)].op = "install"
    /\ mgr_calls[Len(mgr_calls) - 1].op = "install"
    /\ binary_in_path
    /\ shell_log = <<"import_key", "add_repo", "apt_update_install">>
    /\ os_release_reads = 1
    /\ last_result = "ok"

\* the shell commands the step just taken ran
JustRan == SubSeq(shell_log', Len(shell_log) + 1, Len(shell_log'))
\* the install() just called ran its three commands and none of them failed
AllStepsSucceeded == Len(JustRan) = 3 /\ last_result' # "CalledProcessError"

\* C20 as stated: with the binary absent, install() runs import key,
\* register repository, update-and-install in this order; a failing step
\* raises and ends the sequence; after three successful steps install()
\* raises if the binary is still not on the search path.
C20_StepsThenPathCheck ==
    [][(JustCalled("install") /\ ~binary_in_path) =>
          /\ Len(JustRan) >= 1
          /\ IsPrefix(JustRan, <<"import_key", "add_repo", "apt_update_install">>)
          /\ Len(JustRan) < 3 => last_result' = "CalledProcessError"
          /\ (AllStepsSucceeded /\ ~binary_in_path') => last_result' = "RuntimeError"]_vars

\* C20 amended: the same sequence and the same failure of a step; after
\* three successful steps install() raises exactly when the binary is
\* neither on the search path nor at /usr/bin/ngrok.
C20_StepsThenExistenceCheck ==
    [][(JustCalled("install") /\ ~binary_in_path) =>
          /\ Len(JustRan) >= 1
          /\ IsPrefix(JustRan, <<"import_key", "add_repo", "apt_update_install">>)
          /\ Len(JustRan) < 3 => last_result' = "CalledProcessError"
          /\ last_result' \in {"ok", "CalledProcessError", "RuntimeError"}
          /\ AllStepsSucceeded =>
                (last_result' = "RuntimeError" <=> (~binary_in_path' /\ ~usr_bin_ngrok'))]_vars

\* install() ran its three commands and returned normally although the
\* binary is not on the search path: it is at /usr/bin/ngrok
C20_Witness ==
    /\ mgr_calls = <<Call("install", 0)>>
    /\ shell_log = <<"import_key", "add_repo", "apt_update_install">>
    /\ ~binary_in_path
    /\ usr_bin_ngrok
    /\ last_result = "ok"

IsMgrOp(c) == c.op \in {"install", "ensure_token", "start", "wait_for_https_tunnel"}
\* the NgrokManager operations the resolution invoked, in order
ResolutionOps == SelectSeq(app_trace, IsMgrOp)
Signalled(pid) == procs[pid].sigint > 0 \/ procs[pid].sigkill > 0

\* C8: the transport stops the tunnel only after the base cleanup has
\* completed, and never signals a process it did not start itself.
C8_StopsOnlyOwnTunnel ==
    /\ InTrace("stop") => InTrace("session_close")
    /\ \A pid \in Pids : Signalled(pid) => procs[pid].by = "transport"

\* C9 as stated: without a static base URL, install, ensure_token and start
\* run only after the 1 s probe has failed, and none of them runs if the probe
\* succeeds.
C9_ProvisionOnlyAfterProbeFailed ==
    (cls = "NgrokWebhook" /\ ~Truthy(base_url)) =>
        /\ (InTrace("install") \/ InTrace("ensure_token") \/ InTrace("start"))
              => quick_probe = "raised"
        /\ quick_probe = "returned"
              => ~(InTrace("install") \/ InTrace("ensure_token") \/ InTrace("start"))

\* C9 amended: the resolution runs install, then ensure_token if a token is
\* configured, then the 1 s probe; start and the 30 s wait run, in this order,
\* only after that probe has failed, and not at all if it succeeded.
C9_InstallProbeThenStart ==
    (cls = "NgrokWebhook" /\ ~Truthy(base_url)) =>
        /\ IsPrefix(ResolutionOps,
              <<Call("install", 0)>>
                 \o (IF Truthy(ngrok_token) THEN <<Call("ensure_token", 0)>> ELSE <<>>)
                 \o <<Call("wait_for_https_tunnel", QuickTimeoutTicks), Call("start", 0),
                      Call("wait_for_https_tunnel", LongTimeoutTicks)>>)
        /\ InTrace("start") => quick_probe = "raised"
        /\ quick_probe = "returned" => Len(ResolutionOps) <= 3 /\ ~InTrace("start")

\* the probe failed and the whole sequence ran, up to a serving transport
C9_Witness ==
    /\ cls = "NgrokWebhook"
    /\ Truthy(ngrok_token)
    /\ quick_probe = "raised"
    /\ Len(ResolutionOps) = 5
    /\ app_pc = "serving"

\* C10: with a static base URL given to NgrokWebhook, no NgrokManager
\* operation is invoked and the webhook URL is that URL, its trailing slash
\* stripped, followed by the webhook path.
C10_StaticBaseUrlUsed ==
    (cls = "NgrokWebhook" /\ Truthy(base_url_arg)) =>
        /\ ResolutionOps = <<>>
        /\ base.some => base.val = RStrip(base_url_arg.val, "/")
        /\ webhook_url.some => webhook_url.val = RStrip(base_url_arg.val, "/") \o webhook_path

(***************************************************************************)
(* Claims about the startup and cleanup sequences.                         *)
(***************************************************************************)
\* the positions of a run at which _on_startup has not yet resolved the base
BeforeResolved ==
    {"constructed", "startup", "resolve", "install", "token", "call_probe", "probe",
     "start", "call_wait", "wait"}

\* C11: when the public base URL cannot be resolved (a None or empty base_url
\* of WebhookBot, a failed tunnel discovery of NgrokWebhook) _on_startup
\* raises, and as long as no base URL is resolved set_webhook is not called,
\* the startup hook is not emitted and the run does not reach serving.
C11_UnresolvedNeverRegisters ==
    /\ (cls = "WebhookBot" /\ ~Truthy(base_url) /\ app_pc \notin {"constructed", "startup", "resolve"})
          => (app_pc = "failed" /\ app_error = "AttributeError")
    /\ app_error = "TimeoutError" => (app_pc = "failed" /\ ~base.some)
    /\ ~base.some =>
          /\ app_pc \in BeforeResolved \cup {"failed"}
          /\ ~InTrace("set_webhook")
          /\ ~InTrace("emit_startup")
          /\ registered = None

\* a WebhookBot without base URL whose startup ended with the AttributeError
C11_Witness ==
    /\ cls = "WebhookBot"
    /\ ~Truthy(base_url)
    /\ app_pc = "failed"
    /\ app_error = "AttributeError"
    /\ ~InTrace("set_webhook")

\* C12: when the missing base URL is reported (the AttributeError of the
\* resolution) no outbound HTTP client session has been created and no tunnel
\* process has been spawned by the transport.
\* (The code creates the ClientSession on the line before the resolution.)
C12_ConfigErrorBeforeResources ==
    app_error = "AttributeError" =>
        /\ http_session = "none"
        /\ \A pid \in Pids : procs[pid].by # "transport"

IsStartupOp(c) == c.op \in {"ClientSession", "set_webhook", "emit_startup"}
\* the steps of _on_startup performed so far, the resolution left out
StartupOps == SelectSeq(app_trace, IsStartupOp)

\* C13: the startup creates the HTTP client session, resolves the base URL
\* and calls set_webhook, in this order; the webhook is registered with the
\* URL base + path, the configured secret, the allow-list (the default one if
\* none was configured) and the drop-pending flag; and no callback request
\* is handled before set_webhook has completed.
C13_StartupOrderBeforeTraffic ==
    /\ [](/\ IsPrefix(StartupOps,
                <<Call("ClientSession", 0), Call("set_webhook", 0), Call("emit_startup", 0)>>)
          /\ base.some => http_session # "none"
          /\ (base.some /\ cls = "WebhookBot") => base.val = RStrip(base_url.val, "/")
          /\ InTrace("set_webhook") => base.some
          /\ registered.some =>
                registered.val = [url |-> base.val \o webhook_path,
                                  secret_token |-> webhook_secret,
                                  allowed_updates |-> allowed_updates.val,
                                  drop_pending_updates |-> drop_pending]
          /\ (\E r \in RequestIds : requests[r].pc # "none") =>
                /\ InTrace("set_webhook")
                /\ app_pc \notin BeforeResolved \cup {"register", "failed"})
    /\ [][(~registered.some /\ registered'.some) =>
              registered'.val.allowed_updates =
                  IF allowed_updates.some THEN allowed_updates.val
                  ELSE Default_allowed_updates]_vars

\* a WebhookBot registered with a stripped base URL and drop_pending_updates
\* False has answered a callback request
C13_Witness ==
    /\ cls = "WebhookBot"
    /\ base_url = Some(Url_https_m_slash)
    /\ ~drop_pending
    /\ app_pc = "serving"
    /\ registered.some
    /\ registered.val.url = Url_https_m \o webhook_path
    /\ requests[1].pc = "done"
    /\ requests[1].status = 200

\* the cleanup hook has returned or raised: nothing more runs
CleanupEnded == app_pc \in {"stopped", "cleanup_failed"}
\* a tunnel process the transport started is still alive
OwnTunnelAlive == \E pid \in Pids : procs[pid].by = "transport" /\ procs[pid].state = "running"

\* C14: a failure of delete_webhook or of the shutdown hook does not end the
\* cleanup: when the cleanup is over, it has not raised, the HTTP client
\* session is closed and the tunnel the transport started is stopped.
\* (In the code the exception leaves _on_cleanup and the rest is skipped.)
C14_CleanupBestEffort ==
    CleanupEnded =>
        /\ app_pc = "stopped"
        /\ http_session = "closed"
        /\ ~OwnTunnelAlive

\* C15: after a startup that failed part-way (web.run_app has let the
\* exception out, nothing more runs) every resource acquired before the
\* failure has been released: the HTTP client session is not left open, no
\* webhook is left registered and no tunnel process the transport started
\* is left alive.
\* (web.run_app runs no on_cleanup hook when an on_startup hook raised.)
C15_FailedStartupReleased ==
    app_pc = "failed" =>
        /\ http_session # "open"
        /\ registered = None
        /\ ~OwnTunnelAlive

IsCleanupOp(c) == c.op \in {"emit_shutdown", "delete_webhook", "session_close"}
\* the steps of WebhookBot._on_cleanup performed so far
CleanupOps == SelectSeq(app_trace, IsCleanupOp)

\* C16: the cleanup unregisters the webhook, then closes the HTTP client
\* session, then emits the shutdown hook of the dispatcher: the hook is never
\* emitted while the session is not yet closed.
\* (The code emits the shutdown hook first.)
C16_ShutdownHookAfterRelease ==
    /\ IsPrefix(CleanupOps,
          <<Call("delete_webhook", 0), Call("session_close", 0), Call("emit_shutdown", 0)>>)
    /\ InTrace("emit_shutdown") => http_session = "closed"

\* how many times the run has performed the step op
TimesDone(op) == Cardinality({i \in 1..Len(app_trace) : app_trace[i].op = op})
\* the positions of a run from the start of the cleanup hook on
InCleanup ==
    {"emit_shutdown", "delete_webhook", "close_session", "ngrok_cleanup", "stopped",
     "cleanup_failed"}

\* C22: the startup hook is emitted once, after the webhook has been
\* registered, in every run that comes to serve; the shutdown hook is
\* emitted once, in the cleanup, in every run that is shut down; neither is
\* ever emitted twice; and a dispatcher without these hooks (the call raises
\* AttributeError) makes neither the startup nor the cleanup fail.
C22_HooksOnce ==
    /\ TimesDone("emit_startup") <= 1
    /\ TimesDone("emit_shutdown") <= 1
    /\ InTrace("emit_startup") =>
          /\ StartupOps =
                <<Call("ClientSession", 0), Call("set_webhook", 0), Call("emit_startup", 0)>>
          /\ registered.some \/ app_pc \in InCleanup
    /\ app_pc \in {"serving"} \cup InCleanup => TimesDone("emit_startup") = 1
    /\ InTrace("emit_shutdown") => app_pc \in InCleanup
    /\ app_pc \in InCleanup \ {"emit_shutdown"} => TimesDone("emit_shutdown") = 1
    /\ (InTrace("emit_startup") \/ InTrace("emit_shutdown")) => app_error # "AttributeError"

\* a run that served and was shut down to the end
C22_Witness ==
    /\ app_pc = "stopped"
    /\ TimesDone("emit_startup") = 1
    /\ TimesDone("emit_shutdown") = 1
    /\ app_error = "none"

\* C28: a startup ends with TimeoutError only when the 30 s wait that follows
\* start() times out, and the step that lets the error out cleans nothing up:
\* the manager still refers to the process the transport started, stop() is
\* not called and the process has never been signalled (it runs, unless it
\* ended by itself).
C28_TimeoutLeaksTunnel ==
    [][/\ (app_pc = "wait" /\ app_pc' # "wait") =>
             IF wait.pc = "raised"
             THEN /\ app_pc' = "failed"
                  /\ app_error' = "TimeoutError"
                  /\ proc # 0 /\ proc' = proc /\ procs' = procs
                  /\ procs[proc].by = "transport"
                  /\ ~Signalled(proc)
                  /\ mgr_calls' = mgr_calls
                  /\ app_trace' = app_trace
             ELSE app_pc' = "register"
       /\ (app_error' = "TimeoutError" /\ app_error # "TimeoutError") =>
             /\ app_pc = "wait"
             /\ app_trace[Len(app_trace)] = Call("wait_for_https_tunnel", LongTimeoutTicks)
             /\ app_trace[Len(app_trace) - 1] = Call("start", 0)]_vars

\* the startup failed with TimeoutError and the tunnel process the transport
\* started is running, referenced by the manager
C28_Witness ==
    /\ app_pc = "failed"
    /\ app_error = "TimeoutError"
    /\ proc # 0
    /\ procs[proc].state = "running"
    /\ procs[proc].by = "transport"

\* C23: the webhook is registered with the allow-list given to the
\* constructor, unchanged, and with the default one (message and
\* callback_query) when none was given.
\* (NgrokWebhook.__init__ does not pass allowed_updates on: the default list
\* is registered whatever was given.)
C23_AllowListRegistered ==
    registered.some =>
        registered.val.allowed_updates =
            IF allowed_updates_arg.some THEN allowed_updates_arg.val
            ELSE <<"message", "callback_query">>

\* the step just taken ran a blocking provisioning or process call: install()
\* or one of its shell commands, ensure_token() or its write of the ngrok
\* configuration, start() or the spawn of a process
BlockingCall ==
    \/ JustCalled("install")
    \/ JustCalled("ensure_token")
    \/ JustCalled("start")
    \/ shell_log' # shell_log
    \/ ngrok_cfg' # ngrok_cfg
    \/ \E pid \in Pids : procs[pid].state = "unborn" /\ procs'[pid].state # "unborn"

\* C24: the blocking provisioning and process calls run only in the URL
\* resolution of the startup sequence: before the webhook is registered,
\* before the listener accepts traffic, and never once a callback request has
\* arrived.
C24_BlockingCallsOnlyInStartup ==
    [][BlockingCall =>
          /\ app_pc \in {"install", "token", "start"}
          /\ ~Listening /\ ~Listening'
          /\ ~InTrace("set_webhook")
          /\ requests[1].pc = "none"
          /\ requests' = requests]_vars

\* a callback request was answered by a transport whose startup installed
\* ngrok with the three shell commands, wrote the token and spawned the tunnel
C24_Witness ==
    /\ requests[1].pc = "done"
    /\ InTrace("install") /\ Len(shell_log) = 3
    /\ InTrace("ensure_token") /\ ngrok_cfg = Some(Token_x)
    /\ InTrace("start") /\ \E pid \in Pids : procs[pid].by = "transport"

(***************************************************************************)
(* Claims about the LongPolling transport.                                 *)
(***************************************************************************)
\* C27: _run issues one clear-backlog call if the flag is true and none if it
\* is false, the call is over before the first get_updates, and, the call being
\* best-effort, the fetch loop is entered whether it succeeded or raised.
\* (delete_webhook is awaited with no try around it: if it raises, _run ends
\* with that error and start_polling is never called.)
C27_ClearBacklogBestEffort ==
    /\ poll.clears = IF poll.drop_pending_updates /\ poll.pc \notin {"constructed", "clear"}
                     THEN 1 ELSE 0
    /\ poll.pc \in {"constructed", "clear"} => poll.fetches = 0 /\ updates = <<>>
    /\ poll.pc \notin {"constructed", "clear"} => poll.pc \in {"fetch", "spawn"}

Dispatching(i) == updates[i].state \in {"running", "done"}

\* C17: the updates of one fetch are dispatched in the order fetched, none
\* skipped or duplicated, and one at a time: the dispatch of an update does
\* not begin before the dispatch of every earlier update of its batch has
\* ended.
\* (start_polling is called with handle_as_tasks left True: the updates of
\* a batch are processed by concurrent tasks.)
C17_SequentialInOrder ==
    /\ \A k \in 1..Len(feed_order) : feed_order[k] = k
    /\ \A i \in 1..Len(updates) : Dispatching(i) <=> i <= Len(feed_order)
    /\ \A i, j \in 1..Len(updates) :
          (i < j /\ updates[i].batch = updates[j].batch /\ Dispatching(j))
              => updates[i].state = "done"

=============================================================================
